---------------------------- MODULE Spec2Model ----------------------------
(***************************************************************************)
(* A model of the word_counter text utilities: the text-analysis core      *)
(* (counter/utils.py: TextAnalyzer, FileProcessor, TextCleaner) and the    *)
(* two request handlers that call it (counter/views.py: analyze_text_api,  *)
(* process_file_api).                                                      *)
(*                                                                         *)
(* Short texts are TLA+ strings (sequences of characters).  Densities are  *)
(* kept in hundredths of a percent (16.67 is 1667), so that rounding to    *)
(* two decimals is integer arithmetic.                                     *)
(***************************************************************************)
EXTENDS Integers, Sequences, FiniteSets, TLC

VARIABLES
    \* TextAnalyzer.calculate_reading_time / calculate_speaking_time
    word_count, reading_time, speaking_time,
    \* TextAnalyzer.get_keyword_density
    kw_words, keyword_density,
    \* TextCleaner.remove_extra_spaces: the text before the latest call, the text
    \* it returned (the page puts it back in the text box), the calls so far
    clean_input, clean_text, clean_calls,
    \* analyze_text_api: the request being served, the response given to it,
    \* and the texts TextAnalyzer was constructed with while serving it
    api_request, api_response, api_analyzed,
    \* process_file_api: settings.ENABLE_PDF_SUPPORT, the request being served,
    \* the response given to it, what serving it did (the extractor reached, the
    \* calls of file.read(), what the extractor returned or raised, the texts
    \* TextAnalyzer was constructed with), the fitz documents open, and the
    \* uploads received so far
    ENABLE_PDF_SUPPORT, upload, file_response, file_run, open_documents, uploads,
    \* a TextAnalyzer instance: its fields; how often each view has been
    \* computed; what the first and the latest access of each view and the
    \* first and the latest get_stats() returned; the accesses so far, of
    \* each kind
    self_text, _words, _sentences, _paragraphs, computed, first_seen, last_seen, accesses

timeVars == <<word_count, reading_time, speaking_time>>
kwVars == <<kw_words, keyword_density>>
cleanVars == <<clean_input, clean_text, clean_calls>>
apiVars == <<api_request, api_response, api_analyzed>>
fileVars == <<ENABLE_PDF_SUPPORT, upload, file_response, file_run, open_documents, uploads>>
analyzerVars == <<self_text, _words, _sentences, _paragraphs, computed, first_seen, last_seen, accesses>>
vars == <<timeVars, kwVars, cleanVars, apiVars, fileVars, analyzerVars>>

\* A variable that holds no value yet holds None; one that holds v holds Some(v).
None == <<>>

Some(v) == <<v>>

Get(opt) == opt[1]

-----------------------------------------------------------------------------
(* Bounds of the model *)

\* the largest word count given to the time calculators
MaxWordCount == 500

\* the longest word sequence drawn freely over FreeVocabulary
MaxFreeWords == 6

\* the longest tail appended to the eleven distinct keywords of LongBase
MaxTailWords == 2

\* the longest text given to remove_extra_spaces
MaxCleanLen == 6

\* the most consecutive calls of remove_extra_spaces on one text
MaxCleanCalls == 2

\* the most spaces before and after the letters of a submitted text
MaxPad == 2

\* the most pages of an uploaded PDF
MaxPages == 2

\* the most uploads received in a run
MaxUploads == 2

\* the longest text a TextAnalyzer is constructed with
MaxTextLen == 4

\* the most accesses (words, sentences, paragraphs, get_stats) of an instance
MaxAccesses == 4

-----------------------------------------------------------------------------
(* Reading and speaking time: utils.py 65-81 *)

\* math.ceil(a / b) for integers a >= 0, b > 0
Ceil(a, b) == (a + b - 1) \div b

READING_WPM == 225
SPEAKING_WPM == 155

\* a slip: floor division in place of math.ceil
TimeAtFloor(n, wpm) ==
    LET minutes == n \div wpm
    IN  [minutes |-> minutes,
         seconds |-> IF minutes = 0 THEN Ceil(n * 60, wpm) % 60 ELSE 0]

\* a slip: round to the nearest minute in place of math.ceil
TimeAtNearest(n, wpm) ==
    LET minutes == (2 * n + wpm) \div (2 * wpm)
    IN  [minutes |-> minutes,
         seconds |-> IF minutes = 0 THEN Ceil(n * 60, wpm) % 60 ELSE 0]

\* the dict both calculators build from their wpm
TimeAt(n, wpm) ==
    LET minutes == Ceil(n, wpm)
    IN  [minutes |-> minutes,
         seconds |-> IF minutes = 0 THEN Ceil(n * 60, wpm) % 60 ELSE 0]

calculate_reading_time(n) == TimeAt(n, READING_WPM)

calculate_speaking_time(n) == TimeAt(n, SPEAKING_WPM)

TimeIdle ==
    /\ word_count = 0
    /\ reading_time = None
    /\ speaking_time = None

InitTimeInputs ==
    /\ word_count \in 0..MaxWordCount
    /\ reading_time = None
    /\ speaking_time = None

CalculateReadingTime ==
    /\ reading_time = None
    /\ reading_time' = Some(calculate_reading_time(word_count))
    /\ UNCHANGED <<word_count, speaking_time, kwVars, cleanVars, apiVars, fileVars, analyzerVars>>

CalculateSpeakingTime ==
    /\ speaking_time = None
    /\ speaking_time' = Some(calculate_speaking_time(word_count))
    /\ UNCHANGED <<word_count, reading_time, kwVars, cleanVars, apiVars, fileVars, analyzerVars>>

-----------------------------------------------------------------------------
(* Keyword density: utils.py 10-20, 83-110 *)

STOPWORDS == {
    "a", "an", "and", "are", "as", "at", "be", "by", "for", "from",
    "has", "he", "in", "is", "it", "its", "of", "on", "that", "the",
    "to", "was", "were", "will", "with", "this", "but", "they",
    "have", "had", "what", "said", "each", "which", "she", "do", "how",
    "their", "if", "up", "out", "many", "then", "them", "these", "so",
    "some", "her", "would", "make", "like", "into", "him", "time", "two",
    "more", "go", "no", "way", "could", "my", "than", "first", "been",
    "call", "who", "now", "find", "long", "down", "day", "did",
    "get", "come", "made", "may", "part" }

\* len(word) >= 3
MIN_WORD_LEN == 3

\* most_common(10)
TOP_KEYWORDS == 10

\* the test of the list comprehension at lines 88-91
IsKeyword(word) == Len(word) >= MIN_WORD_LEN /\ word \notin STOPWORDS

filtered_words(words) == SelectSeq(words, IsKeyword)

\* collections.Counter(seq): the distinct elements in the order of their first
\* occurrence (dicts keep insertion order), each with its number of occurrences
RECURSIVE Counter(_)
Counter(seq) ==
    IF seq = <<>> THEN <<>>
    ELSE LET prev == Counter(SubSeq(seq, 1, Len(seq) - 1))
             w == seq[Len(seq)]
         IN  IF \E i \in DOMAIN prev : prev[i].word = w
             THEN [i \in DOMAIN prev |->
                      IF prev[i].word = w
                      THEN [word |-> w, count |-> prev[i].count + 1]
                      ELSE prev[i]]
             ELSE Append(prev, [word |-> w, count |-> 1])

RemoveAt(seq, i) == SubSeq(seq, 1, i - 1) \o SubSeq(seq, i + 1, Len(seq))

\* a slip: among equal counts the last seen comes first
RECURSIVE SortedByCountDescUnstable(_)
SortedByCountDescUnstable(items) ==
    IF items = <<>> THEN <<>>
    ELSE LET top == CHOOSE i \in DOMAIN items :
                        /\ \A j \in DOMAIN items : items[j].count <= items[i].count
                        /\ \A j \in (i + 1)..Len(items) : items[j].count < items[i].count
         IN  <<items[top]>> \o SortedByCountDescUnstable(RemoveAt(items, top))

\* sorted(items, key=count, reverse=True): a stable sort, so equal counts keep
\* the order they have in items
RECURSIVE SortedByCountDesc(_)
SortedByCountDesc(items) ==
    IF items = <<>> THEN <<>>
    ELSE LET top == CHOOSE i \in DOMAIN items :
                        /\ \A j \in DOMAIN items : items[j].count <= items[i].count
                        /\ \A j \in 1..(i - 1) : items[j].count < items[i].count
         IN  <<items[top]>> \o SortedByCountDesc(RemoveAt(items, top))

\* Counter.most_common(n) is heapq.nlargest(n, items, key=count), which returns
\* what sorted(items, key=count, reverse=True)[:n] returns
most_common(counter, n) ==
    LET sorted == SortedByCountDesc(counter)
    IN  SubSeq(sorted, 1, IF n < Len(sorted) THEN n ELSE Len(sorted))

\* a slip: math.ceil to two decimals in place of round
CeiledDensity(count, total) == Ceil(count * 10000, total)

\* round((count / total) * 100, 2), in hundredths of a percent.  round() goes to
\* the nearest hundredth, and to the even one from a value exactly halfway (a
\* halfway value needs total to be a multiple of 32).
RoundedDensity(count, total) ==
    LET q == (count * 10000) \div total
        r == (count * 10000) % total
    IN  IF 2 * r > total THEN q + 1
        ELSE IF 2 * r < total THEN q
        ELSE IF q % 2 = 0 THEN q ELSE q + 1

\* lines 93-110: the list built from the filtered words
keyword_data(filtered) ==
    IF filtered = <<>> THEN <<>>
    ELSE LET word_counts == Counter(filtered)
             total_words == Len(filtered)
             top == most_common(word_counts, TOP_KEYWORDS)
         IN  [i \in DOMAIN top |->
                 [word |-> top[i].word,
                  count |-> top[i].count,
                  density |-> RoundedDensity(top[i].count, total_words)]]

get_keyword_density(words) ==
    IF words = <<>> THEN <<>> ELSE keyword_data(filtered_words(words))

\* The word sequences given to get_keyword_density: every sequence of at most
\* MaxFreeWords words over FreeVocabulary, and eleven distinct keywords followed
\* by at most MaxTailWords words over LongVocabulary (more than ten candidates).
FreeVocabulary == {"cat", "dog", "fox", "the"}

LongBase == <<"alpha", "bravo", "cobra", "delta", "eagle", "fjord",
              "gamma", "hotel", "india", "joker", "kilos">>

LongVocabulary == {LongBase[i] : i \in DOMAIN LongBase} \cup {"lima", "the", "ox"}

SeqsUpTo(S, n) == UNION {[1..k -> S] : k \in 0..n}

KeywordInputs ==
    SeqsUpTo(FreeVocabulary, MaxFreeWords)
        \cup {LongBase \o tail : tail \in SeqsUpTo(LongVocabulary, MaxTailWords)}

KeywordsIdle ==
    /\ kw_words = <<>>
    /\ keyword_density = None

InitKeywordInputs ==
    /\ kw_words \in KeywordInputs
    /\ keyword_density = None

GetKeywordDensity ==
    /\ keyword_density = None
    /\ keyword_density' = Some(get_keyword_density(kw_words))
    /\ UNCHANGED <<kw_words, timeVars, cleanVars, apiVars, fileVars, analyzerVars>>

-----------------------------------------------------------------------------
(* Strings and the regular expressions of the re module *)

\* the character at position i of text (positions count from 1)
Char(text, i) == SubSeq(text, i, i)

\* what \s matches and str.strip() strips, of the characters of the texts here
WHITESPACE == {" ", "\t", "\n", "\r", "\f"}

IsWhitespace(c) == c \in WHITESPACE

\* every character of text[a..b] is whitespace
AllWhitespace(text, a, b) == \A k \in a..b : IsWhitespace(Char(text, k))

Max(S) == CHOOSE x \in S : \A y \in S : y <= x

\* str.strip(): leading and trailing whitespace removed
strip(text) ==
    LET solid == {k \in 1..Len(text) : ~IsWhitespace(Char(text, k))}
    IN  IF solid = {} THEN ""
        ELSE SubSeq(text, CHOOSE a \in solid : \A b \in solid : a <= b, Max(solid))

UPPERCASE == "ABCDEFGHIJKLMNOPQRSTUVWXYZ"

LOWERCASE == "abcdefghijklmnopqrstuvwxyz"

LowerChar(c) ==
    IF \E i \in 1..Len(UPPERCASE) : Char(UPPERCASE, i) = c
    THEN Char(LOWERCASE, CHOOSE i \in 1..Len(UPPERCASE) : Char(UPPERCASE, i) = c)
    ELSE c

\* str.lower()
RECURSIVE lower(_)
lower(text) ==
    IF text = "" THEN "" ELSE LowerChar(Char(text, 1)) \o lower(SubSeq(text, 2, Len(text)))

\* A pattern is modelled by its match at a position: MatchX(text, p) is the
\* position just after the match the backtracking matcher finds when it starts
\* at p, or 0 when it finds none there.  Greedy quantifiers take the longest
\* run first, an earlier quantifier before a later one.

\* [ \t]+
MatchSpacesTabs(text, p) ==
    LET ends == {e \in (p + 1)..(Len(text) + 1) :
                    \A k \in p..(e - 1) : Char(text, k) \in {" ", "\t"}}
    IN  IF ends = {} THEN 0 ELSE Max(ends)

\* \n\s*\n\s*\n+  : j is the second \n, k the first \n of \n+, e the end
MatchLineBreaks(text, p) ==
    LET n == Len(text)
        Tails(k) == {e \in (k + 1)..(n + 1) : \A x \in k..(e - 1) : Char(text, x) = "\n"}
        Thirds(j) == {k \in (j + 1)..n : AllWhitespace(text, j + 1, k - 1) /\ Tails(k) # {}}
        Seconds == {j \in (p + 1)..n :
                       /\ AllWhitespace(text, p + 1, j - 1)
                       /\ Char(text, j) = "\n"
                       /\ Thirds(j) # {}}
    IN  IF p > n \/ Char(text, p) # "\n" \/ Seconds = {} THEN 0
        ELSE Max(Tails(Max(Thirds(Max(Seconds)))))

\* ^ under re.MULTILINE: the start of the text or just after a newline
AtLineStart(text, p) == p = 1 \/ Char(text, p - 1) = "\n"

\* $ under re.MULTILINE: the end of the text or just before a newline
AtLineEnd(text, p) == p = Len(text) + 1 \/ Char(text, p) = "\n"

\* ^\s+|\s+$ under re.MULTILINE: the first alternative is tried first
MatchLineMargins(text, p) ==
    LET runs == {e \in (p + 1)..(Len(text) + 1) : AllWhitespace(text, p, e - 1)}
        trailing == {e \in runs : AtLineEnd(text, e)}
    IN  IF runs = {} THEN 0
        ELSE IF AtLineStart(text, p) THEN Max(runs)
        ELSE IF trailing = {} THEN 0
        ELSE Max(trailing)

\* the patterns, as the source writes them
SPACES_TABS == "[ \\t]+"

LINE_BREAKS == "\\n\\s*\\n\\s*\\n+"

LINE_MARGINS == "^\\s+|\\s+$"

WORD == "\\b\\w+\\b"

SENTENCE_END == "[.!?]+"

BLANK_LINE == "\\n\\s*\\n"

\* what \w matches, of the characters of the texts here
WORD_CHARS == "abcdefghijklmnopqrstuvwxyzABCDEFGHIJKLMNOPQRSTUVWXYZ0123456789_"

IsWordChar(c) == \E i \in 1..Len(WORD_CHARS) : Char(WORD_CHARS, i) = c

\* \b: a word character on exactly one side of position p
AtWordBoundary(text, p) ==
    (p > 1 /\ IsWordChar(Char(text, p - 1))) # (p <= Len(text) /\ IsWordChar(Char(text, p)))

\* \b\w+\b
MatchWord(text, p) ==
    LET ends == {e \in (p + 1)..(Len(text) + 1) :
                    /\ \A k \in p..(e - 1) : IsWordChar(Char(text, k))
                    /\ AtWordBoundary(text, e)}
    IN  IF ~AtWordBoundary(text, p) \/ ends = {} THEN 0 ELSE Max(ends)

\* [.!?]+
MatchSentenceEnd(text, p) ==
    LET ends == {e \in (p + 1)..(Len(text) + 1) :
                    \A k \in p..(e - 1) : Char(text, k) \in {".", "!", "?"}}
    IN  IF ends = {} THEN 0 ELSE Max(ends)

\* \n\s*\n  : j is the second \n
MatchBlankLine(text, p) ==
    LET seconds == {j \in (p + 1)..Len(text) :
                       AllWhitespace(text, p + 1, j - 1) /\ Char(text, j) = "\n"}
    IN  IF p > Len(text) \/ Char(text, p) # "\n" \/ seconds = {} THEN 0
        ELSE Max(seconds) + 1

\* the match of pattern at position p of text
Match(pattern, text, p) ==
    CASE pattern = SPACES_TABS -> MatchSpacesTabs(text, p)
      [] pattern = LINE_BREAKS -> MatchLineBreaks(text, p)
      [] pattern = LINE_MARGINS -> MatchLineMargins(text, p)
      [] pattern = WORD -> MatchWord(text, p)
      [] pattern = SENTENCE_END -> MatchSentenceEnd(text, p)
      [] pattern = BLANK_LINE -> MatchBlankLine(text, p)

\* re.sub(pattern, repl, text) from position p on: the leftmost match is
\* replaced and the scan goes on after it; a character no match starts at is
\* copied
RECURSIVE SubFrom(_, _, _, _)
SubFrom(pattern, repl, text, p) ==
    IF p > Len(text) THEN ""
    ELSE LET e == Match(pattern, text, p)
         IN  IF e = 0
             THEN Char(text, p) \o SubFrom(pattern, repl, text, p + 1)
             ELSE repl \o SubFrom(pattern, repl, text, e)

re_sub(pattern, repl, text) == SubFrom(pattern, repl, text, 1)

\* re.findall(pattern, text) from position p on: the matches, left to right
RECURSIVE FindAllFrom(_, _, _)
FindAllFrom(pattern, text, p) ==
    IF p > Len(text) THEN <<>>
    ELSE LET e == Match(pattern, text, p)
         IN  IF e = 0 THEN FindAllFrom(pattern, text, p + 1)
             ELSE <<SubSeq(text, p, e - 1)>> \o FindAllFrom(pattern, text, e)

re_findall(pattern, text) == FindAllFrom(pattern, text, 1)

\* re.split(pattern, text) from position p on, the piece in hand starting at
\* from: the pieces between the matches, empty ones included
RECURSIVE SplitFrom(_, _, _, _)
SplitFrom(pattern, text, p, from) ==
    IF p > Len(text) THEN <<SubSeq(text, from, Len(text))>>
    ELSE LET e == Match(pattern, text, p)
         IN  IF e = 0 THEN SplitFrom(pattern, text, p + 1, from)
             ELSE <<SubSeq(text, from, p - 1)>> \o SplitFrom(pattern, text, e, e)

re_split(pattern, text) == SplitFrom(pattern, text, 1, 1)

-----------------------------------------------------------------------------
(* TextCleaner.remove_extra_spaces: utils.py 151-157 *)

\* a slip: the margins replaced by a space
trim_lines_to_space(text) == re_sub(LINE_MARGINS, " ", text)

\* re.sub(r'^\s+|\s+$', '', text, flags=re.MULTILINE)
trim_lines(text) == re_sub(LINE_MARGINS, "", text)

remove_extra_spaces(text) ==
    LET spaced == re_sub(SPACES_TABS, " ", text)
        broken == re_sub(LINE_BREAKS, "\n\n", spaced)
        trimmed == trim_lines(broken)
    IN  strip(trimmed)

\* the characters of the texts given to the cleaner
CleanAlphabet == {"a", " ", "\t", "\n"}

\* every string of at most n characters of S
RECURSIVE StringsUpTo(_, _)
StringsUpTo(S, n) ==
    IF n = 0 THEN {""}
    ELSE LET shorter == StringsUpTo(S, n - 1)
         IN  shorter \cup {t \o c : t \in {u \in shorter : Len(u) = n - 1}, c \in S}

CleanerIdle ==
    /\ clean_input = ""
    /\ clean_text = ""
    /\ clean_calls = 0

InitCleanerInputs ==
    /\ clean_text \in StringsUpTo(CleanAlphabet, MaxCleanLen)
    /\ clean_input = clean_text
    /\ clean_calls = 0

RemoveExtraSpaces ==
    /\ clean_calls < MaxCleanCalls
    /\ clean_input' = clean_text
    /\ clean_text' = remove_extra_spaces(clean_text)
    /\ clean_calls' = clean_calls + 1
    /\ UNCHANGED <<timeVars, kwVars, apiVars, fileVars, analyzerVars>>

-----------------------------------------------------------------------------
(* Texts of the size the handlers limit.  A text of tens of thousands of     *)
(* characters is written as its runs: <<[ch |-> " ", n |-> 1], [ch |-> "a",  *)
(* n |-> 50000]>> is a space followed by 50000 letters a.  Adjacent runs     *)
(* have different characters and no run is empty.                            *)

Run(ch, n) == IF n = 0 THEN <<>> ELSE <<[ch |-> ch, n |-> n]>>

\* lead spaces, body letters a, trail spaces
RunText(lead, body, trail) == Run(" ", lead) \o Run("a", body) \o Run(" ", trail)

\* len(text)
RECURSIVE RunLen(_)
RunLen(text) == IF text = <<>> THEN 0 ELSE text[1].n + RunLen(Tail(text))

RECURSIVE RunLStrip(_)
RunLStrip(text) ==
    IF text # <<>> /\ IsWhitespace(text[1].ch) THEN RunLStrip(Tail(text)) ELSE text

RECURSIVE RunRStrip(_)
RunRStrip(text) ==
    IF text # <<>> /\ IsWhitespace(text[Len(text)].ch)
    THEN RunRStrip(SubSeq(text, 1, Len(text) - 1))
    ELSE text

\* text.strip()
RunStrip(text) == RunRStrip(RunLStrip(text))

\* text[:k]
RECURSIVE RunPrefix(_, _)
RunPrefix(text, k) ==
    IF text = <<>> \/ k <= 0 THEN <<>>
    ELSE IF text[1].n >= k THEN <<[ch |-> text[1].ch, n |-> k]>>
    ELSE <<text[1]>> \o RunPrefix(Tail(text), k - text[1].n)

\* TextAnalyzer(text).words (line 32): a run of letters between runs of spaces
\* is one maximal run of word characters
RunWords(text) == SelectSeq(text, LAMBDA r : ~IsWhitespace(r.ch))

\* lines 88-91 for a word that is n times the letter a: "a" is a stopword, and
\* no stopword is a letter repeated twice or more
RunIsKeyword(w) == w.n >= MIN_WORD_LEN /\ ~(w.ch = "a" /\ w.n = 1 /\ "a" \in STOPWORDS)

\* TextAnalyzer(text).get_stats() (lines 51-63) of a text of letters and spaces:
\* with no . ! ? and no line break in it, the text is one sentence and one
\* paragraph unless it is blank
RunStats(text) ==
    LET words == RunWords(text)
        blocks == IF RunStrip(text) = <<>> THEN 0 ELSE 1
    IN  [word_count |-> Len(words),
         character_count |-> RunLen(text),
         character_count_no_spaces |-> RunLen(SelectSeq(text, LAMBDA r : r.ch # " ")),
         sentence_count |-> blocks,
         paragraph_count |-> blocks,
         reading_time |-> calculate_reading_time(Len(words)),
         speaking_time |-> calculate_speaking_time(Len(words)),
         keyword_density |->
             IF words = <<>> THEN <<>>
             ELSE keyword_data(SelectSeq(words, RunIsKeyword))]

-----------------------------------------------------------------------------
(* analyze_text_api: views.py 123-145 *)

\* len(text) > 50000
MAX_TEXT_CHARS == 50000

\* JsonResponse({'error': message}, status=status)
ErrorResponse(status, message) == [status |-> status, error |-> message]

\* JsonResponse({'success': True, 'stats': stats})
StatsResponse(stats) == [status |-> 200, success |-> TRUE, stats |-> stats]

\* The bodies of the requests: not JSON, JSON that is no object, an object
\* with no 'text', an object whose 'text' is no string, an object with a text.
BodyLengths == {0, 1, 2, 3, MAX_TEXT_CHARS - 1, MAX_TEXT_CHARS, MAX_TEXT_CHARS + 1}

SubmittedTexts ==
    {RunText(lead, body, trail) :
        lead \in 0..MaxPad, body \in BodyLengths \ {0}, trail \in 0..MaxPad}
        \cup {RunText(lead, 0, 0) : lead \in 0..(2 * MaxPad)}

ApiRequests ==
    {[body |-> b] : b \in {"not json", "json array", "object without text",
                           "object with number as text"}}
        \cup {[body |-> "object with text", text |-> t] : t \in SubmittedTexts}

\* a slip: the limit checked with >=
TooLongOffByOne(text) == RunLen(text) >= MAX_TEXT_CHARS

\* line 134
TooLong(text) == RunLen(text) > MAX_TEXT_CHARS

\* lines 129-140, from the value of data.get('text', '') on: the response and
\* the texts TextAnalyzer is constructed with
AnalyzeText(submitted) ==
    LET text == RunStrip(submitted)
    IN  IF text = <<>>
        THEN [response |-> ErrorResponse(400, "No text provided"), analyzed |-> <<>>]
        ELSE IF TooLong(text)
        THEN [response |-> ErrorResponse(400, "Text too long (max 50,000 characters)"),
              analyzed |-> <<>>]
        ELSE [response |-> StatsResponse(RunStats(text)), analyzed |-> <<text>>]

\* the whole handler
analyze_text_api(request) ==
    CASE request.body = "not json" ->
            \* json.loads raises json.JSONDecodeError
            [response |-> ErrorResponse(400, "Invalid JSON"), analyzed |-> <<>>]
      [] request.body = "json array" ->
            \* data.get raises AttributeError, caught at line 144
            [response |-> ErrorResponse(500, "'list' object has no attribute 'get'"),
             analyzed |-> <<>>]
      [] request.body = "object with number as text" ->
            \* .strip() raises AttributeError, caught at line 144
            [response |-> ErrorResponse(500, "'int' object has no attribute 'strip'"),
             analyzed |-> <<>>]
      [] request.body = "object without text" -> AnalyzeText(<<>>)
      [] request.body = "object with text" -> AnalyzeText(request.text)

ApiIdle ==
    /\ api_request = None
    /\ api_response = None
    /\ api_analyzed = <<>>

\* a POST arrives at the endpoint
ReceiveAnalyzeRequest ==
    /\ api_request = None \/ api_response # None
    /\ \E request \in ApiRequests : api_request' = Some(request)
    /\ api_response' = None
    /\ api_analyzed' = <<>>
    /\ UNCHANGED <<timeVars, kwVars, cleanVars, fileVars, analyzerVars>>

AnalyzeTextApi ==
    /\ api_request # None
    /\ api_response = None
    /\ LET done == analyze_text_api(Get(api_request))
       IN  /\ api_response' = Some(done.response)
           /\ api_analyzed' = done.analyzed
    /\ UNCHANGED <<api_request, timeVars, kwVars, cleanVars, fileVars, analyzerVars>>

-----------------------------------------------------------------------------
(* FileProcessor: utils.py 112-148 *)

\* two run texts one after the other
RunConcat(a, b) ==
    IF a # <<>> /\ b # <<>> /\ a[Len(a)].ch = b[1].ch
    THEN SubSeq(a, 1, Len(a) - 1)
             \o <<[ch |-> b[1].ch, n |-> a[Len(a)].n + b[1].n]>> \o Tail(b)
    ELSE a \o b

\* '\n'.join(text)
RECURSIVE RunJoinLines(_)
RunJoinLines(texts) ==
    IF texts = <<>> THEN <<>>
    ELSE IF Len(texts) = 1 THEN texts[1]
    ELSE RunConcat(RunConcat(texts[1], Run("\n", 1)), RunJoinLines(Tail(texts)))

\* what an extractor does: it returns a text or raises; reads counts the calls
\* of file.read(), opened and closed the fitz documents opened and closed
Returned(text, reads, opened, closed) ==
    [raised |-> "none", text |-> text, reads |-> reads, opened |-> opened, closed |-> closed]

Raised(kind, message, reads, opened, closed) ==
    [raised |-> kind, message |-> message, reads |-> reads, opened |-> opened, closed |-> closed]

\* The content of an uploaded file is one of
\*   [kind |-> "unreadable"]   file.read() raises OSError
\*   [kind |-> "plain", utf8, text]   the bytes of text, valid UTF-8 or not
\*   [kind |-> "unseekable"]   bytes that are not UTF-8, and file.seek(0) raises OSError
\*   [kind |-> "docx", text]   a DOCX document of one paragraph
\*   [kind |-> "pdf", pages, bad_page]   a PDF document of pages pages of PAGE_CHARS
\*       letters; get_text() raises on page bad_page (0: on none)

\* the text of every page of the PDFs here
PAGE_CHARS == 5000

extract_text_from_txt(file) ==
    CASE file.content.kind = "unreadable" ->
            \* line 142 catches UnicodeDecodeError only
            Raised("OSError", "read failed", 1, 0, 0)
      [] file.content.kind = "plain" ->
            IF file.content.utf8
            THEN Returned(file.content.text, 1, 0, 0)
            ELSE Returned(file.content.text, 2, 0, 0)
      [] file.content.kind = "unseekable" ->
            Raised("ValueError", "Error processing text file: seek failed", 1, 0, 0)

extract_text_from_docx(file) ==
    CASE file.content.kind = "docx" -> Returned(file.content.text, 1, 0, 0)
      [] file.content.kind = "unreadable" ->
            Raised("ValueError", "Error processing DOCX file: read failed", 1, 0, 0)
      [] OTHER ->
            Raised("ValueError", "Error processing DOCX file: File is not a zip file", 1, 0, 0)

extract_text_from_pdf(file, enabled) ==
    IF ~enabled THEN Raised("ValueError", "PDF support is not enabled", 0, 0, 0)
    ELSE CASE file.content.kind = "unreadable" ->
                 Raised("ValueError", "Error processing PDF file: read failed", 1, 0, 0)
           [] file.content.kind = "pdf" ->
                 IF file.content.bad_page # 0
                 THEN \* fitz.open has opened the document; page.get_text() raises
                      \* and line 134, doc.close(), is not reached
                      Raised("ValueError", "Error processing PDF file: cannot read page",
                             1, 1, 0)
                 ELSE Returned(RunJoinLines([i \in 1..file.content.pages |->
                                                RunText(0, PAGE_CHARS, 0)]), 1, 1, 1)
           [] OTHER ->
                 \* fitz.open raises: no document was opened
                 Raised("ValueError", "Error processing PDF file: cannot open document", 1, 0, 0)

-----------------------------------------------------------------------------
(* process_file_api: views.py 147-192 *)

\* 5 * 1024 * 1024
MAX_UPLOAD_BYTES == 5242880

\* text[:10000]
PREVIEW_CHARS == 10000

\* the position of the last "." of name, 0 when it has none
LastDot(name) ==
    LET dots == {k \in 1..Len(name) : Char(name, k) = "."}
    IN  IF dots = {} THEN 0 ELSE Max(dots)

\* file.name.lower().split('.')[-1]
file_extension(name) == SubSeq(lower(name), LastDot(name) + 1, Len(name))

\* what serving a request did when no extractor was reached
NoRun == [reached |-> "none", reads |-> 0, raised |-> "none", message |-> "",
          extracted |-> None, analyzed |-> <<>>]

RunOf(reached, did) ==
    [reached |-> reached, reads |-> did.reads, raised |-> did.raised,
     message |-> IF did.raised = "none" THEN "" ELSE did.message,
     extracted |-> IF did.raised = "none" THEN Some(did.text) ELSE None,
     analyzed |-> <<>>]

\* a slip: the Stats of the preview
StatsOfPreview(text) == RunStats(RunPrefix(text, PREVIEW_CHARS))

\* lines 178-179: TextAnalyzer(text).get_stats()
StatsOfExtracted(text) == RunStats(text)

\* lines 174-189, from the extractor's return or raise on
AfterExtraction(file, reached, did) ==
    LET run == RunOf(reached, did)
    IN  CASE did.raised = "ValueError" ->
                [response |-> ErrorResponse(400, did.message), run |-> run,
                 opened |-> did.opened, closed |-> did.closed]
          [] did.raised = "OSError" ->
                \* line 191
                [response |-> ErrorResponse(500, "File processing failed"), run |-> run,
                 opened |-> did.opened, closed |-> did.closed]
          [] did.raised = "none" ->
                IF RunStrip(did.text) = <<>>
                THEN [response |-> ErrorResponse(400, "No text found in file"), run |-> run,
                      opened |-> did.opened, closed |-> did.closed]
                ELSE [response |-> [status |-> 200, success |-> TRUE,
                                    text |-> RunPrefix(did.text, PREVIEW_CHARS),
                                    stats |-> StatsOfExtracted(did.text),
                                    filename |-> file.name],
                      run |-> [run EXCEPT !.analyzed = <<did.text>>],
                      opened |-> did.opened, closed |-> did.closed]

Rejected(message) ==
    [response |-> ErrorResponse(400, message), run |-> NoRun, opened |-> 0, closed |-> 0]

\* the whole handler; the rate limit of line 148 is left to the decorator
process_file_api(request, enabled) ==
    IF request.FILES = <<>> THEN Rejected("No file uploaded")
    ELSE LET file == request.FILES[1]
             extension == file_extension(file.name)
         IN  IF file.size > MAX_UPLOAD_BYTES THEN Rejected("File too large (max 5MB)")
             ELSE IF extension = "txt"
             THEN AfterExtraction(file, "txt", extract_text_from_txt(file))
             ELSE IF extension = "docx"
             THEN AfterExtraction(file, "docx", extract_text_from_docx(file))
             ELSE IF extension = "pdf"
             THEN AfterExtraction(file, "pdf", extract_text_from_pdf(file, enabled))
             ELSE Rejected("Unsupported file type. Use TXT, DOCX, or PDF")

\* The uploads: names with and without an extension, in either case; sizes at
\* the limit; contents of every kind, with texts at the length of the preview.
FileNames == {"notes.txt", "NOTES.TXT", "cv.docx", "paper.Pdf", "book.tar.pdf",
              "setup.exe", "README", "txt"}

FileSizes == {1, MAX_UPLOAD_BYTES, MAX_UPLOAD_BYTES + 1}

FileTexts == {RunText(0, 0, 0), RunText(1, 0, 0), RunText(0, 3, 0),
              RunText(0, PREVIEW_CHARS, 0), RunText(1, PREVIEW_CHARS, 0),
              RunText(0, PREVIEW_CHARS + 1, 1)}

FileContents ==
    {[kind |-> "unreadable"], [kind |-> "unseekable"]}
        \cup {[kind |-> "plain", utf8 |-> u, text |-> t] : u \in BOOLEAN, t \in FileTexts}
        \cup {[kind |-> "docx", text |-> t] : t \in FileTexts}
        \cup {[kind |-> "pdf", pages |-> n, bad_page |-> b] :
                 n \in 0..MaxPages, b \in 0..MaxPages}

\* a DOCX or a PDF under a name that sends it to the text extractor is left out
UploadedFiles ==
    {f \in [name : FileNames, size : FileSizes, content : FileContents] :
        /\ f.content.kind = "pdf" => f.content.bad_page <= f.content.pages
        /\ f.content.kind \in {"docx", "pdf"} => file_extension(f.name) # "txt"}

FileRequests == {[FILES |-> <<>>]} \cup {[FILES |-> <<f>>] : f \in UploadedFiles}

FileIdle ==
    /\ ENABLE_PDF_SUPPORT = FALSE
    /\ upload = None
    /\ file_response = None
    /\ file_run = NoRun
    /\ open_documents = 0
    /\ uploads = 0

InitFileApi ==
    /\ ENABLE_PDF_SUPPORT \in BOOLEAN
    /\ upload = None
    /\ file_response = None
    /\ file_run = NoRun
    /\ open_documents = 0
    /\ uploads = 0

\* a POST arrives at the endpoint
ReceiveUpload ==
    /\ upload = None \/ file_response # None
    /\ uploads < MaxUploads
    /\ \E request \in FileRequests : upload' = Some(request)
    /\ uploads' = uploads + 1
    /\ file_response' = None
    /\ file_run' = NoRun
    /\ UNCHANGED <<ENABLE_PDF_SUPPORT, open_documents, timeVars, kwVars, cleanVars, apiVars,
                   analyzerVars>>

ProcessFileApi ==
    /\ upload # None
    /\ file_response = None
    /\ LET done == process_file_api(Get(upload), ENABLE_PDF_SUPPORT)
       IN  /\ file_response' = Some(done.response)
           /\ file_run' = done.run
           /\ open_documents' = open_documents + done.opened - done.closed
    /\ UNCHANGED <<ENABLE_PDF_SUPPORT, upload, uploads, timeVars, kwVars, cleanVars, apiVars,
                   analyzerVars>>

-----------------------------------------------------------------------------
(* TextAnalyzer: utils.py 22-63 *)

\* a slip: the pieces stripped, the "if s.strip()" filter left out
StrippedKeepingEmpty(pieces) == [i \in DOMAIN pieces |-> strip(pieces[i])]

\* [s.strip() for s in pieces if s.strip()]
StrippedNonEmpty(pieces) ==
    LET stripped == [i \in DOMAIN pieces |-> strip(pieces[i])]
    IN  SelectSeq(stripped, LAMBDA piece : piece # "")

\* line 32
compute_words(t) == SelectSeq(re_findall(WORD, lower(t)), LAMBDA w : w # "")

\* lines 39-40
compute_sentences(t) == StrippedNonEmpty(re_split(SENTENCE_END, t))

\* lines 47-48
compute_paragraphs(t) == StrippedNonEmpty(re_split(BLANK_LINE, strip(t)))

\* a slip: "if not self._words", which also holds of an empty list
IsNoneOrEmpty(cache) == cache = None \/ Get(cache) = <<>>

\* "if self._words is None"
IsNone(cache) == cache = None

\* a cached property: the field after the access, whether the access computed
\* the view, and the list it returned
Property(cache, value) ==
    IF IsNone(cache)
    THEN [cache |-> Some(value), computations |-> 1, returned |-> value]
    ELSE [cache |-> cache, computations |-> 0, returned |-> Get(cache)]

\* len(self.text.replace(' ', ''))
LenWithoutSpaces(t) == Cardinality({k \in 1..Len(t) : Char(t, k) # " "})

\* the dict of lines 54-63, from the lists the three properties returned
StatsDict(t, words, sentences, paragraphs) ==
    [word_count |-> Len(words),
     character_count |-> Len(t),
     character_count_no_spaces |-> LenWithoutSpaces(t),
     sentence_count |-> Len(sentences),
     paragraph_count |-> Len(paragraphs),
     reading_time |-> calculate_reading_time(Len(words)),
     speaking_time |-> calculate_speaking_time(Len(words)),
     keyword_density |-> get_keyword_density(words)]

\* the characters of the texts given to TextAnalyzer
TextAlphabet == {"A", " ", ".", "\n"}

Views == {"words", "sentences", "paragraphs"}

Accessed == Views \cup {"get_stats"}

\* the accesses made of the instance so far
Total(count) ==
    count["words"] + count["sentences"] + count["paragraphs"] + count["get_stats"]

AnalyzerIdle ==
    /\ self_text = ""
    /\ _words = None
    /\ _sentences = None
    /\ _paragraphs = None
    /\ computed = [v \in Views |-> 0]
    /\ first_seen = [v \in Views \cup {"stats"} |-> None]
    /\ last_seen = [v \in Views \cup {"stats"} |-> None]
    /\ accesses = [a \in Accessed |-> 0]

\* TextAnalyzer(self_text): lines 22-26
InitAnalyzer ==
    /\ self_text \in StringsUpTo(TextAlphabet, MaxTextLen)
    /\ _words = None
    /\ _sentences = None
    /\ _paragraphs = None
    /\ computed = [v \in Views |-> 0]
    /\ first_seen = [v \in Views \cup {"stats"} |-> None]
    /\ last_seen = [v \in Views \cup {"stats"} |-> None]
    /\ accesses = [a \in Accessed |-> 0]

\* what an access returned is noted as the latest, and as the first if it is
Seen(seen, view, value, first) ==
    [seen EXCEPT ![view] = IF first /\ seen[view] # None THEN @ ELSE Some(value)]

\* analyzer.words
AccessWords ==
    /\ Total(accesses) < MaxAccesses
    /\ LET got == Property(_words, compute_words(self_text))
       IN  /\ _words' = got.cache
           /\ computed' = [computed EXCEPT !["words"] = @ + got.computations]
           /\ first_seen' = Seen(first_seen, "words", got.returned, TRUE)
           /\ last_seen' = Seen(last_seen, "words", got.returned, FALSE)
    /\ accesses' = [accesses EXCEPT !["words"] = @ + 1]
    /\ UNCHANGED <<self_text, _sentences, _paragraphs,
                   timeVars, kwVars, cleanVars, apiVars, fileVars>>

\* analyzer.sentences
AccessSentences ==
    /\ Total(accesses) < MaxAccesses
    /\ LET got == Property(_sentences, compute_sentences(self_text))
       IN  /\ _sentences' = got.cache
           /\ computed' = [computed EXCEPT !["sentences"] = @ + got.computations]
           /\ first_seen' = Seen(first_seen, "sentences", got.returned, TRUE)
           /\ last_seen' = Seen(last_seen, "sentences", got.returned, FALSE)
    /\ accesses' = [accesses EXCEPT !["sentences"] = @ + 1]
    /\ UNCHANGED <<self_text, _words, _paragraphs,
                   timeVars, kwVars, cleanVars, apiVars, fileVars>>

\* analyzer.paragraphs
AccessParagraphs ==
    /\ Total(accesses) < MaxAccesses
    /\ LET got == Property(_paragraphs, compute_paragraphs(self_text))
       IN  /\ _paragraphs' = got.cache
           /\ computed' = [computed EXCEPT !["paragraphs"] = @ + got.computations]
           /\ first_seen' = Seen(first_seen, "paragraphs", got.returned, TRUE)
           /\ last_seen' = Seen(last_seen, "paragraphs", got.returned, FALSE)
    /\ accesses' = [accesses EXCEPT !["paragraphs"] = @ + 1]
    /\ UNCHANGED <<self_text, _words, _sentences,
                   timeVars, kwVars, cleanVars, apiVars, fileVars>>

\* analyzer.get_stats(): it reads the three properties and builds the dict
GetStats ==
    /\ Total(accesses) < MaxAccesses
    /\ LET w == Property(_words, compute_words(self_text))
           s == Property(_sentences, compute_sentences(self_text))
           p == Property(_paragraphs, compute_paragraphs(self_text))
           stats == StatsDict(self_text, w.returned, s.returned, p.returned)
           firsts == Seen(Seen(Seen(Seen(first_seen, "words", w.returned, TRUE),
                                    "sentences", s.returned, TRUE),
                               "paragraphs", p.returned, TRUE),
                          "stats", stats, TRUE)
           lasts == Seen(Seen(Seen(Seen(last_seen, "words", w.returned, FALSE),
                                   "sentences", s.returned, FALSE),
                              "paragraphs", p.returned, FALSE),
                         "stats", stats, FALSE)
       IN  /\ _words' = w.cache
           /\ _sentences' = s.cache
           /\ _paragraphs' = p.cache
           /\ computed' = [computed EXCEPT !["words"] = @ + w.computations,
                                           !["sentences"] = @ + s.computations,
                                           !["paragraphs"] = @ + p.computations]
           /\ first_seen' = firsts
           /\ last_seen' = lasts
    /\ accesses' = [accesses EXCEPT !["get_stats"] = @ + 1]
    /\ UNCHANGED <<self_text, timeVars, kwVars, cleanVars, apiVars, fileVars>>

-----------------------------------------------------------------------------
(* Specifications *)

InitTime == InitTimeInputs /\ KeywordsIdle /\ CleanerIdle /\ ApiIdle /\ FileIdle
               /\ AnalyzerIdle

NextTime == CalculateReadingTime \/ CalculateSpeakingTime

SpecTime == InitTime /\ [][NextTime]_vars

InitKeywords == InitKeywordInputs /\ TimeIdle /\ CleanerIdle /\ ApiIdle /\ FileIdle
               /\ AnalyzerIdle

NextKeywords == GetKeywordDensity

SpecKeywords == InitKeywords /\ [][NextKeywords]_vars

InitCleaner == InitCleanerInputs /\ TimeIdle /\ KeywordsIdle /\ ApiIdle /\ FileIdle
               /\ AnalyzerIdle

NextCleaner == RemoveExtraSpaces

SpecCleaner == InitCleaner /\ [][NextCleaner]_vars

InitAnalyzeApi == ApiIdle /\ TimeIdle /\ KeywordsIdle /\ CleanerIdle /\ FileIdle
               /\ AnalyzerIdle

NextAnalyzeApi == ReceiveAnalyzeRequest \/ AnalyzeTextApi

SpecAnalyzeApi == InitAnalyzeApi /\ [][NextAnalyzeApi]_vars

InitFile == InitFileApi /\ TimeIdle /\ KeywordsIdle /\ CleanerIdle /\ ApiIdle
               /\ AnalyzerIdle

NextFile == ReceiveUpload \/ ProcessFileApi

SpecFileApi == InitFile /\ [][NextFile]_vars

InitInstance == InitAnalyzer /\ TimeIdle /\ KeywordsIdle /\ CleanerIdle /\ ApiIdle /\ FileIdle

NextInstance == AccessWords \/ AccessSentences \/ AccessParagraphs \/ GetStats

SpecAnalyzer == InitInstance /\ [][NextInstance]_vars

-----------------------------------------------------------------------------
(* Claims about the time calculators *)

\* m is the ceiling of a / b
IsCeiling(m, a, b) == m * b >= a /\ (m - 1) * b < a

\* the claimed dict for word count n at wpm words a minute
ClaimedTime(t, n, wpm) ==
    /\ IsCeiling(t.minutes, n, wpm)
    /\ IF t.minutes = 0
       THEN \E c \in 0..(n * 60) : IsCeiling(c, n * 60, wpm) /\ t.seconds = c % 60
       ELSE t.seconds = 0

\* C1: for every word count n >= 0, calculate_reading_time(n) has minutes =
\* ceil(n / 225), and seconds = ceil((n / 225) * 60) mod 60 when minutes is 0 and
\* seconds = 0 otherwise; calculate_speaking_time(n) is the same at 155; 450
\* words read in minutes 2, seconds 0.
C1_TimeFormula ==
    /\ reading_time # None =>
          /\ ClaimedTime(Get(reading_time), word_count, 225)
          /\ word_count = 450 => Get(reading_time) = [minutes |-> 2, seconds |-> 0]
    /\ speaking_time # None => ClaimedTime(Get(speaking_time), word_count, 155)

\* both calculators have answered for 450 words
C1_Witness ==
    /\ word_count = 450
    /\ reading_time # None
    /\ speaking_time # None

-----------------------------------------------------------------------------
(* Claims about the keyword density *)

Occurrences(w) == Cardinality({i \in DOMAIN kw_words : kw_words[i] = w})

FirstOccurrence(w) ==
    CHOOSE i \in DOMAIN kw_words :
        kw_words[i] = w /\ \A j \in 1..(i - 1) : kw_words[j] # w

\* the words of the input that pass the filter
Survivors ==
    {kw_words[i] : i \in {j \in DOMAIN kw_words :
                             Len(kw_words[j]) >= 3 /\ kw_words[j] \notin STOPWORDS}}

Reported == {Get(keyword_density)[i].word : i \in DOMAIN Get(keyword_density)}

\* C2: get_keyword_density returns at most 10 entries, only of words of length
\* >= 3 outside the stopword set; an entry's count is the number of occurrences
\* of its word; entries are in descending order of count, equal counts in the
\* order of first occurrence; no word with a strictly higher count than a
\* reported word is left out; the result is empty when no word survives.
C2_KeywordRanking ==
    keyword_density # None =>
        LET r == Get(keyword_density)
        IN  /\ Len(r) <= 10
            /\ \A i \in DOMAIN r :
                  /\ r[i].word \in Survivors
                  /\ r[i].count = Occurrences(r[i].word)
            /\ \A i, j \in DOMAIN r :
                  i < j =>
                     \/ r[i].count > r[j].count
                     \/ /\ r[i].count = r[j].count
                        /\ FirstOccurrence(r[i].word) < FirstOccurrence(r[j].word)
            /\ \A w \in Survivors \ Reported :
                  \A i \in DOMAIN r : Occurrences(w) <= r[i].count
            /\ Survivors = {} => r = <<>>

\* more than ten words survive, two of them tie, one input word is filtered
\* out, and ten entries are returned
C2_Witness ==
    /\ keyword_density # None
    /\ Cardinality(Survivors) > 10
    /\ Len(Get(keyword_density)) = 10
    /\ \E i \in DOMAIN kw_words : kw_words[i] \in STOPWORDS
    /\ \E i, j \in DOMAIN Get(keyword_density) :
          i # j /\ Get(keyword_density)[i].count = Get(keyword_density)[j].count

RECURSIVE SumOfDensities(_)
SumOfDensities(r) ==
    IF r = <<>> THEN 0 ELSE r[1].density + SumOfDensities(Tail(r))

RECURSIVE SumOfCounts(_)
SumOfCounts(r) ==
    IF r = <<>> THEN 0 ELSE r[1].count + SumOfCounts(Tail(r))

\* C3 as claimed: the density values of the returned entries sum to at most 100.
C3_DensitySumAtMost100 ==
    keyword_density # None => SumOfDensities(Get(keyword_density)) <= 10000

\* C3: each density is within 0.005 of count / total_filtered_words * 100, these
\* exact values sum to at most 100, and so the density values sum to at most
\* 100 plus 0.005 for each returned entry.
C3_DensitySumWithinRounding ==
    keyword_density # None =>
        LET r == Get(keyword_density)
            total == Len(SelectSeq(kw_words, LAMBDA w : w \in Survivors))
        IN  /\ \A i \in DOMAIN r :
                  /\ 2 * (r[i].density * total - r[i].count * 10000) <= total
                  /\ 2 * (r[i].count * 10000 - r[i].density * total) <= total
            /\ SumOfCounts(r) <= total
            /\ 2 * SumOfDensities(r) <= 2 * 10000 + Len(r)

\* a returned list whose densities sum to more than 100
C3_Witness ==
    /\ keyword_density # None
    /\ SumOfDensities(Get(keyword_density)) > 10000

-----------------------------------------------------------------------------
(* Claims about remove_extra_spaces *)

\* C4: remove_extra_spaces is idempotent: applied to its own result it returns
\* that result.
C4_Idempotent == clean_calls >= 2 => clean_text = clean_input

\* a second call has been made on a result that still has a space and a line
\* break in it
C4_Witness ==
    /\ clean_calls = 2
    /\ \E k \in 1..Len(clean_input) : Char(clean_input, k) = "\n"
    /\ \E k \in 1..Len(clean_input) : Char(clean_input, k) = " "

\* the positions of the characters of text that are not whitespace
Solid(text) == {k \in 1..Len(text) : ~IsWhitespace(Char(text, k))}

\* the position of the n-th of them
NthSolid(text, n) ==
    CHOOSE k \in Solid(text) : Cardinality({j \in Solid(text) : j < k}) = n - 1

\* what stands between the n-th and the next
GapAfter(text, n) == SubSeq(text, NthSolid(text, n) + 1, NthSolid(text, n + 1) - 1)

LineBreaksIn(text) == Cardinality({k \in 1..Len(text) : Char(text, k) = "\n"})

\* no line of text begins or ends with a space or a tab
LinesTrimmed(text) ==
    \A k \in 1..Len(text) :
        Char(text, k) \in {" ", "\t"} =>
            ~AtLineStart(text, k) /\ ~AtLineEnd(text, k + 1)

\* C5: where two non-blank lines of the input are separated by 3 or more line
\* breaks (spaces and tabs may stand between them), the result has exactly 2
\* line breaks between those two lines; a run of spaces and tabs inside a line
\* becomes one space; no line of the result has leading or trailing whitespace.
C5_LineBreaksCollapseToTwo ==
    clean_calls >= 1 =>
        /\ Cardinality(Solid(clean_text)) = Cardinality(Solid(clean_input))
        /\ \A n \in 1..(Cardinality(Solid(clean_input)) - 1) :
              LET before == GapAfter(clean_input, n)
                  after == GapAfter(clean_text, n)
              IN  /\ LineBreaksIn(before) >= 3 => LineBreaksIn(after) = 2
                  /\ (before # "" /\ LineBreaksIn(before) = 0) => after = " "
        /\ LinesTrimmed(clean_text)

-----------------------------------------------------------------------------
(* Claims about analyze_text_api *)

\* the text a request submits, <<>> (the empty text) when it submits none
Submitted == IF "text" \in DOMAIN Get(api_request) THEN Get(api_request).text ELSE <<>>

SubmitsText == Get(api_request).body \in {"object with text", "object without text"}

IsErrorResponse(r) == "error" \in DOMAIN r /\ r.status >= 400

IsBlank(text) == \A i \in DOMAIN text : IsWhitespace(text[i].ch)

\* C6 as claimed: a submitted text that is empty, whitespace-only or longer
\* than 50,000 characters is rejected with an error response and TextAnalyzer
\* is never invoked; every other text yields a success response carrying the
\* Stats of the text (as submitted, or trimmed).
C6_RejectsBySubmittedLength ==
    (api_response # None /\ SubmitsText) =>
        IF IsBlank(Submitted) \/ RunLen(Submitted) > 50000
        THEN IsErrorResponse(Get(api_response)) /\ api_analyzed = <<>>
        ELSE \/ Get(api_response) = StatsResponse(RunStats(Submitted))
             \/ Get(api_response) = StatsResponse(RunStats(RunStrip(Submitted)))

\* C6: the text is trimmed first.  A submitted text whose trimmed form is empty
\* or longer than 50,000 characters is rejected with an error response and
\* TextAnalyzer is never invoked; every other text yields a success response
\* carrying the Stats of the trimmed text, TextAnalyzer having been constructed
\* once, with the trimmed text.  A body that submits no text is rejected too.
C6_RejectsByTrimmedLength ==
    api_response # None =>
        IF SubmitsText
        THEN LET trimmed == RunStrip(Submitted)
             IN  IF trimmed = <<>> \/ RunLen(trimmed) > 50000
                 THEN /\ IsErrorResponse(Get(api_response))
                      /\ Get(api_response).status = 400
                      /\ api_analyzed = <<>>
                 ELSE /\ Get(api_response) = StatsResponse(RunStats(trimmed))
                      /\ api_analyzed = <<trimmed>>
        ELSE IsErrorResponse(Get(api_response)) /\ api_analyzed = <<>>

\* a text of 50,001 letters has been rejected
C6_Witness ==
    /\ api_request # None
    /\ api_response # None
    /\ SubmitsText
    /\ RunLen(RunStrip(Submitted)) = 50001
    /\ IsErrorResponse(Get(api_response))
    /\ api_analyzed = <<>>

-----------------------------------------------------------------------------
(* Claims about the extractors and process_file_api *)

\* C7: a PDF document that extract_text_from_pdf has opened is closed by the
\* time the call returns or raises, whether every page gave its text or a page
\* failed to parse: no opened document remains open after any sequence of
\* extraction calls.
C7_HandlesReleased == open_documents = 0

UploadedFile == Get(upload).FILES[1]

\* the failures of the claim's list, for the extractor that was reached
ExtractorFailed ==
    \/ UploadedFile.content.kind \in {"unreadable", "unseekable"}
    \/ file_run.reached = "docx" /\ UploadedFile.content.kind # "docx"
    \/ file_run.reached = "pdf" /\ UploadedFile.content.kind # "pdf"
    \/ file_run.reached = "pdf" /\ UploadedFile.content.bad_page # 0
    \/ file_run.reached = "pdf" /\ ~ENABLE_PDF_SUPPORT

\* C8: every failure inside an extractor surfaces as a ValueError carrying a
\* cause message and as no other error: undecodable text, a read failure of the
\* uploaded file, a corrupt DOCX, a PDF parse failure, and PDF support disabled
\* (reported as not enabled before any byte of the file is read); the handler
\* answers with that message as a client error.
C8_FailuresAreValueErrors ==
    (file_response # None /\ file_run.reached # "none") =>
        /\ file_run.raised \in {"none", "ValueError"}
        /\ ExtractorFailed =>
              /\ file_run.raised = "ValueError"
              /\ file_run.message # ""
              /\ Get(file_response) = ErrorResponse(400, file_run.message)
        /\ (file_run.reached = "pdf" /\ ~ENABLE_PDF_SUPPORT) =>
              /\ file_run.message = "PDF support is not enabled"
              /\ file_run.reads = 0

\* A file name has an extension when it has a dot: the extension is what
\* follows the last dot, in lower case.
HasExtension(name) == \E k \in 1..Len(name) : Char(name, k) = "."

ExtensionOf(name) ==
    LET dot == CHOOSE k \in 1..Len(name) :
                   Char(name, k) = "." /\ \A j \in (k + 1)..Len(name) : Char(name, j) # "."
    IN  lower(SubSeq(name, dot + 1, Len(name)))

C10_MemoizedViews ==
    /\ \A v \in Views :
          /\ computed[v] <= 1
          /\ computed[v] = 1 <=> first_seen[v] # None
          /\ last_seen[v] = first_seen[v]
    /\ _words = first_seen["words"]
    /\ _sentences = first_seen["sentences"]
    /\ _paragraphs = first_seen["paragraphs"]
    /\ last_seen["stats"] # None =>
          /\ Get(last_seen["stats"]).word_count = Len(Get(last_seen["words"]))
          /\ Get(last_seen["stats"]).word_count = Len(compute_words(self_text))
    /\ last_seen["stats"] = first_seen["stats"]

\* words read twice and get_stats() called twice, of a text of two words in
\* two sentences
C10_Witness ==
    /\ accesses["words"] = 2
    /\ accesses["get_stats"] = 2
    /\ Len(Get(last_seen["words"])) = 2
    /\ Len(Get(last_seen["sentences"])) = 2
    /\ Get(last_seen["stats"]).word_count = 2


\* the Stats of the empty string
EmptyStats ==
    [word_count |-> 0,
     character_count |-> 0,
     character_count_no_spaces |-> 0,
     sentence_count |-> 0,
     paragraph_count |-> 0,
     reading_time |-> [minutes |-> 0, seconds |-> 0],
     speaking_time |-> [minutes |-> 0, seconds |-> 0],
     keyword_density |-> <<>>]

WhitespaceOnly(t) == Len(t) > 0 /\ AllWhitespace(t, 1, Len(t))

\* C11: get_stats() of the empty string returns all five counts 0, no keyword
\* and reading and speaking times of 0 minutes 0 seconds; of a text of
\* whitespace only, each of words, sentences and paragraphs is the empty
\* list, and get_stats() returns a dict (it does not raise), with no word, no
\* sentence, no paragraph and no keyword.
C11_DegenerateInput ==
    /\ self_text = "" /\ accesses["get_stats"] > 0 =>
          last_seen["stats"] = Some(EmptyStats)
    /\ WhitespaceOnly(self_text) =>
          /\ \A v \in Views :
                /\ accesses[v] > 0 \/ accesses["get_stats"] > 0 => last_seen[v] # None
                /\ last_seen[v] # None => Get(last_seen[v]) = <<>>
          /\ accesses["get_stats"] > 0 =>
                /\ last_seen["stats"] # None
                /\ Get(last_seen["stats"]).word_count = 0
                /\ Get(last_seen["stats"]).sentence_count = 0
                /\ Get(last_seen["stats"]).paragraph_count = 0
                /\ Get(last_seen["stats"]).keyword_density = <<>>
                /\ Get(last_seen["stats"]).character_count = Len(self_text)

\* a blank line between spaces: every view read and get_stats() called
C11_Witness ==
    /\ self_text = " \n\n "
    /\ \A a \in Accessed : accesses[a] = 1
    /\ last_seen["stats"] # None
    /\ Get(last_seen["stats"]).character_count_no_spaces = 2


\* a time of n words: no seconds, no minute only for no word
WholeMinutes(t, n) ==
    /\ t.seconds = 0
    /\ t.minutes = 0 <=> n = 0
    /\ n >= 1 => t.minutes >= 1

\* C12: for every word count n >= 0 the seconds of reading_time and of
\* speaking_time are 0, minutes being 0 for n = 0 only, where the seconds
\* formula gives 0 too; so the Stats of get_stats() carry seconds 0 in both
\* times, and at least 1 minute in both for a text of at least one word.
C12_SecondsAlwaysZero ==
    /\ reading_time # None => WholeMinutes(Get(reading_time), word_count)
    /\ speaking_time # None => WholeMinutes(Get(speaking_time), word_count)
    /\ last_seen["stats"] # None =>
          /\ WholeMinutes(Get(last_seen["stats"]).reading_time,
                          Get(last_seen["stats"]).word_count)
          /\ WholeMinutes(Get(last_seen["stats"]).speaking_time,
                          Get(last_seen["stats"]).word_count)

\* both calculators have answered for a single word: a minute each
C12_Witness ==
    /\ word_count = 1
    /\ reading_time = Some([minutes |-> 1, seconds |-> 0])
    /\ speaking_time = Some([minutes |-> 1, seconds |-> 0])

=============================================================================
